---- MODULE Spec2Model ----
(***************************************************************************)
(* Model of the cron dispatcher repository.  Three scripts are modelled:   *)
(*   "index.js"  - src/index.js: broadcast to every endpoint, literal      *)
(*                 query parameters, X-Cron-Secret header;                 *)
(*   "part_000"  - src/unnamed/part_000: one random endpoint, randomized   *)
(*                 parameters, no validation, no headers;                  *)
(*   "part_001"  - src/unnamed/part_001: one random endpoint, randomized   *)
(*                 parameters, express server with /health, /trigger and   *)
(*                 /status.                                                *)
(* Strings are sequences of one-character strings.  JavaScript values are  *)
(* records tagged by their type in field t.                                *)
(***************************************************************************)
EXTENDS Integers, Sequences, FiniteSets, TLC

VARIABLES variant, env, proc, endpoints, queryParams, scheduled, listening,
          cycles, lastResponse, fn

vars == <<variant, env, proc, endpoints, queryParams, scheduled, listening,
          cycles, lastResponse, fn>>

\* ------------------------------------------------------------------ bounds
\* Dispatch cycles started in one behaviour.
MaxCycles == 2
\* Longest endpoint array configured.
MaxEndpoints == 2
\* Largest range of a randomized query parameter.
MaxRange == 3
\* Math.random() takes the values k / RandDenom, k in 0 .. RandDenom - 1.
RandDenom == 4

\* --------------------------------------------------------- JavaScript values
Undefined == [t |-> "undefined"]
Null == [t |-> "null"]
Str(s) == [t |-> "string", v |-> s]
Num(n) == [t |-> "number", v |-> n]
Arr(a) == [t |-> "array", v |-> a]
\* The number NaN (arithmetic on undefined).
NaN == [t |-> "nan"]
\* An object literal; a field the JSON text does not give is Undefined.
Obj(k, val, r) == [t |-> "object", key |-> k, value |-> val, range |-> r]
\* The text of an environment variable that is valid JSON denoting val.
JsonText(val) == [t |-> "jsontext", val |-> val]
\* The text of an environment variable that is not valid JSON.
BadText == [t |-> "badtext"]

\* JavaScript truthiness (the conditions of `if`, `!`, `&&`, `?:`).
Truthy(x) ==
  CASE x.t = "undefined" -> FALSE
    [] x.t = "null" -> FALSE
    [] x.t = "string" -> Len(x.v) > 0
    [] x.t = "number" -> x.v # 0
    [] OTHER -> TRUE

\* Reading a property of undefined or null throws a TypeError.
HasProps(x) == x.t \notin {"undefined", "null"}

Digit(d) ==
  CASE d = 0 -> "0" [] d = 1 -> "1" [] d = 2 -> "2" [] d = 3 -> "3"
    [] d = 4 -> "4" [] d = 5 -> "5" [] d = 6 -> "6" [] d = 7 -> "7"
    [] d = 8 -> "8" [] d = 9 -> "9"

RECURSIVE ToDigits(_)
ToDigits(n) == IF n < 10 THEN <<Digit(n)>> ELSE ToDigits(n \div 10) \o <<Digit(n % 10)>>

\* String(x), as a template literal `${x}` converts its value.
StringOf(x) ==
  CASE x.t = "undefined" -> <<"u","n","d","e","f","i","n","e","d">>
    [] x.t = "null" -> <<"n","u","l","l">>
    [] x.t = "string" -> x.v
    [] x.t = "number" -> ToDigits(x.v)
    [] x.t = "nan" -> <<"N","a","N">>
    [] OTHER -> <<"[","o","b","j","e","c","t","]">>

\* The characters of the model's alphabet that encodeURIComponent escapes.
PercentCode(c) ==
  CASE c = " " -> <<"%","2","0">>
    [] c = "/" -> <<"%","2","F">>
    [] c = "?" -> <<"%","3","F">>
    [] c = "&" -> <<"%","2","6">>
    [] c = "=" -> <<"%","3","D">>
    [] c = "%" -> <<"%","2","5">>
    [] OTHER -> <<c>>

RECURSIVE EncodeChars(_)
EncodeChars(s) == IF s = <<>> THEN <<>> ELSE PercentCode(Head(s)) \o EncodeChars(Tail(s))

encodeURIComponent(x) == EncodeChars(StringOf(x))

\* Array.prototype.join(sep) over a sequence of strings.
RECURSIVE Join(_, _)
Join(parts, sep) ==
  IF parts = <<>> THEN <<>>
  ELSE IF Len(parts) = 1 THEN parts[1]
  ELSE parts[1] \o sep \o Join(Tail(parts), sep)

StartsWith(s, p) == Len(s) >= Len(p) /\ SubSeq(s, 1, Len(p)) = p

\* The scheme prefix 'Bearer ' (7 characters).
Bearer == <<"B","e","a","r","e","r"," ">>

\* Math.floor(Math.random() * n) for Math.random() = k / RandDenom.
FloorRandomTimes(k, n) == (k * n) \div RandDenom

\* x.length: the length of an array, undefined for a number or a plain object.
LengthOf(x) == IF x.t = "array" THEN Num(Len(x.v)) ELSE Undefined

\* arr[i] for a zero-based index that is a number or NaN.
ElementAt(arr, i) ==
  IF arr.t = "array" /\ i.t = "number" /\ i.v + 1 \in 1..Len(arr.v) THEN arr.v[i.v + 1]
  ELSE Undefined

\* Math.floor(Math.random() * n) where n is a JavaScript value.
FloorRandom(k, n) == IF n.t = "number" THEN Num(FloorRandomTimes(k, n.v)) ELSE NaN

\* The sample without its `+ 1`: Math.floor(Math.random() * range).
RandomInt_zeroBased(k, range) == FloorRandom(k, range)

\* Math.floor(Math.random() * range) + 1
RandomInt(k, range) ==
  LET f == FloorRandom(k, range) IN IF f.t = "number" THEN Num(f.v + 1) ELSE NaN

\* ------------------------------------------------------- src/index.js
getAllEndpoints(arr) ==
  IF ~Truthy(arr) \/ LengthOf(arr) = Num(0) THEN Arr(<<>>) ELSE arr

RECURSIVE LiteralPairs(_)
LiteralPairs(a) ==
  IF a = <<>> THEN <<>>
  ELSE LET param == Head(a) IN
       (IF Truthy(param.key) /\ param.value.t \notin {"undefined", "null"}
        THEN <<encodeURIComponent(param.key) \o <<"=">> \o encodeURIComponent(param.value)>>
        ELSE <<>>) \o LiteralPairs(Tail(a))

\* The query string of index.js; arr is never null here (the caller has read
\* queryParams.length before).
buildQueryParams(arr) ==
  IF ~Truthy(arr) \/ LengthOf(arr) = Num(0) THEN <<>>
  ELSE IF arr.t = "array" THEN Join(LiteralPairs(arr.v), <<"&">>)
  ELSE <<>>

\* buildURL of index.js; the function of part_001 (lines 110-122) has the same text.
buildURL(baseURL, endpoint, queryString) ==
  LET withEndpoint == IF Truthy(endpoint) THEN baseURL \o <<"/">> \o StringOf(endpoint)
                      ELSE baseURL
  IN IF queryString # <<>> THEN withEndpoint \o <<"?">> \o queryString ELSE withEndpoint

NoCredential == [name |-> "none", value |-> <<>>]

createRequestHeaders_index(cronSecret) ==
  [contentType |-> "application/json", userAgent |-> "CronJob/1.0.0",
   credential |-> IF Truthy(cronSecret)
                  THEN [name |-> "X-Cron-Secret", value |-> cronSecret.v]
                  ELSE NoCredential]

\* ------------------------------------------------------- src/unnamed/part_000
\* Throws (ok = FALSE) when arr is null: null has no length.
getRandomEndpoint_000(arr, k) ==
  IF ~HasProps(arr) THEN [ok |-> FALSE, val |-> Undefined]
  ELSE [ok |-> TRUE, val |-> ElementAt(arr, FloorRandom(k, LengthOf(arr)))]

RECURSIVE LegacyPairs(_, _)
LegacyPairs(a, ks) ==
  IF a = <<>> THEN <<>>
  ELSE StringOf(Head(a).key) \o <<"=">> \o StringOf(RandomInt(Head(ks), Head(a).range))
       \o <<"&">> \o LegacyPairs(Tail(a), Tail(ks))

getRandomQueryParams_000(arr, ks) ==
  IF ~HasProps(arr) THEN [ok |-> FALSE, val |-> <<>>]
  ELSE [ok |-> TRUE, val |-> IF arr.t = "array" THEN LegacyPairs(arr.v, ks) ELSE <<>>]

\* `${baseURL}/${getRandomEndpoint(endpoints)}?${getRandomQueryParams(queryParams)}`
LegacyURL(base, endpoint, query) ==
  StringOf(base) \o <<"/">> \o StringOf(endpoint) \o <<"?">> \o query

\* ------------------------------------------------------- src/unnamed/part_001
\* authenticateRequest with the `return` before res.status(403) lost: the
\* rejection is sent and next() is called all the same.
authenticateRequest_fallthrough(authHeader, serverAuthToken) ==
  IF ~Truthy(authHeader) THEN [status |-> 401, next |-> FALSE]
  ELSE LET token == IF StartsWith(authHeader.v, Bearer)
                    THEN SubSeq(authHeader.v, 8, Len(authHeader.v))
                    ELSE authHeader.v
       IN IF Str(token) # serverAuthToken THEN [status |-> 403, next |-> TRUE]
          ELSE [status |-> 0, next |-> TRUE]

\* [status |-> s, next |-> n]: the response the middleware sends (0: none) and
\* whether it calls next().
authenticateRequest(authHeader, serverAuthToken) ==
  IF ~Truthy(authHeader) THEN [status |-> 401, next |-> FALSE]
  ELSE LET token == IF StartsWith(authHeader.v, Bearer)
                    THEN SubSeq(authHeader.v, 8, Len(authHeader.v))
                    ELSE authHeader.v
       IN IF Str(token) # serverAuthToken THEN [status |-> 403, next |-> FALSE]
          ELSE [status |-> 0, next |-> TRUE]

getRandomEndpoint_001(arr, k) ==
  IF ~Truthy(arr) \/ LengthOf(arr) = Num(0) THEN Str(<<>>)
  ELSE ElementAt(arr, FloorRandom(k, LengthOf(arr)))

\* The values sampled for the parameters that pass `param.key && param.range`.
RECURSIVE SampledParams(_, _)
SampledParams(a, ks) ==
  IF a = <<>> THEN <<>>
  ELSE LET param == Head(a) IN
       (IF Truthy(param.key) /\ Truthy(param.range)
        THEN <<[key |-> param.key, range |-> param.range,
                value |-> RandomInt(Head(ks), param.range)]>>
        ELSE <<>>) \o SampledParams(Tail(a), Tail(ks))

RandomPairs(sampled) ==
  [i \in 1..Len(sampled) |->
     encodeURIComponent(sampled[i].key) \o <<"=">> \o encodeURIComponent(sampled[i].value)]

getRandomQueryParams_001(arr, ks) ==
  IF ~Truthy(arr) \/ LengthOf(arr) = Num(0) THEN <<>>
  ELSE IF arr.t = "array" THEN Join(RandomPairs(SampledParams(arr.v, ks)), <<"&">>)
  ELSE <<>>

\* createRequestHeaders of part_001 reading the wrong token: the inbound
\* secret is sent as the outbound credential.
createRequestHeaders_001_inboundToken(clientAuthToken) ==
  [contentType |-> "application/json", userAgent |-> "CronJob/1.0.0",
   credential |-> [name |-> "Authorization", value |-> Bearer \o env.SERVER_AUTH_TOKEN.v]]

createRequestHeaders_001(clientAuthToken) ==
  [contentType |-> "application/json", userAgent |-> "CronJob/1.0.0",
   credential |-> IF Truthy(clientAuthToken)
                  THEN [name |-> "Authorization",
                        value |-> IF StartsWith(clientAuthToken.v, Bearer)
                                  THEN clientAuthToken.v
                                  ELSE Bearer \o clientAuthToken.v]
                  ELSE NoCredential]

\* ------------------------------------------------------- request builders
\* index.js lines 120-121 (makeRequest): the URL a broadcast call is sent to.
RequestURL_index(baseURL, endpoint, params) ==
  buildURL(baseURL.v, endpoint, buildQueryParams(params))

\* part_001 lines 151-152 (executeCronJob): the URL of the single call.
RequestURL_001(baseURL, endpoint, params, ks) ==
  buildURL(baseURL.v, endpoint, getRandomQueryParams_001(params, ks))

\* part_000 lines 22-24: the URL template of the callback; params is not null.
RequestURL_000(baseURL, endpoint, params, ks) ==
  LegacyURL(baseURL, endpoint, getRandomQueryParams_000(params, ks).val)

\* ------------------------------------------------------------ configuration
Variants == {"index.js", "part_000", "part_001"}

\* The i-th endpoint path of the configured arrays: "e1", "e2", ...
EndpointName(i) == Str(<<"e">> \o ToDigits(i))

EndpointArrays == {Arr([i \in 1..n |-> EndpointName(i)]) : n \in 0..MaxEndpoints}

\* process.env.ENDPOINTS: unset, not JSON, or JSON for null, a number or an array.
EndpointTexts ==
  {Undefined, BadText, JsonText(Null), JsonText(Num(5))}
    \cup {JsonText(a) : a \in EndpointArrays}

RandomizedParam == Obj(Str(<<"x">>), Undefined, Num(2))
LiteralParam == Obj(Str(<<"x">>), Str(<<"5">>), Undefined)

\* process.env.QUERY_PARAMS: unset, not JSON, or JSON for null or an array.
ParamTexts ==
  {Undefined, BadText, JsonText(Null), JsonText(Arr(<<>>)),
   JsonText(Arr(<<RandomizedParam>>)), JsonText(Arr(<<LiteralParam>>))}

Secret == <<"s">>
\* Another inbound secret; as a header it is a wrong token for Secret.
OtherSecret == <<"t">>

\* Every value an environment variable takes; a variable a script never reads
\* is left unset.
EnvDomain(v) ==
  [CRON_TIMER : {Undefined, Str(<<"*">>)},
   BASE_URL : {Undefined, Str(<<"h">>)},
   ENDPOINTS : EndpointTexts,
   QUERY_PARAMS : ParamTexts,
   CRON_SECRET : IF v = "index.js" THEN {Undefined, Str(<<"c">>)} ELSE {Undefined},
   SERVER_AUTH_TOKEN : IF v = "part_001"
                       THEN {Undefined, Str(Secret), Str(OtherSecret)}
                       ELSE {Undefined},
   CLIENT_AUTH_TOKEN : IF v = "part_001" THEN {Undefined, Str(<<"c">>)} ELSE {Undefined}]

\* The reference deployment: everything required is set, one endpoint, no
\* query parameters, no outbound credential.
Reference(v) ==
  [CRON_TIMER |-> Str(<<"*">>),
   BASE_URL |-> Str(<<"h">>),
   ENDPOINTS |-> JsonText(Arr(<<EndpointName(1)>>)),
   QUERY_PARAMS |-> JsonText(Arr(<<>>)),
   CRON_SECRET |-> Undefined,
   SERVER_AUTH_TOKEN |-> IF v = "part_001" THEN Str(Secret) ELSE Undefined,
   CLIENT_AUTH_TOKEN |-> Undefined]

\* The environments of the model: the reference deployment with at most one
\* variable changed.
Envs(v) ==
  {e \in EnvDomain(v) :
     Cardinality({f \in DOMAIN e : e[f] # Reference(v)[f]}) <= 1}

\* The Authorization header of an incoming request (undefined: no header).
Headers ==
  {Undefined, Str(<<>>), Str(Secret), Str(Bearer \o Secret), Str(OtherSecret)}

\* What the transport answers: an HTTP status, or 0 for a transport failure.
Outcomes == {200, 500, 0}

\* JSON.parse(text); ok = FALSE is a SyntaxError.
JSON_parse(text) ==
  IF text.t = "jsontext" THEN [ok |-> TRUE, val |-> text.val]
  ELSE [ok |-> FALSE, val |-> Undefined]

\* process.env.X ? JSON.parse(process.env.X) : []
ParseOrEmpty(text) ==
  IF Truthy(text) THEN JSON_parse(text) ELSE [ok |-> TRUE, val |-> Arr(<<>>)]

\* lastResponse is the last response a route handler or the middleware sent
\* before returning; the response POST /trigger sends after its await is
\* recorded in the cycle it awaited.
NoResponse == [path |-> "none", auth |-> Undefined, status |-> 0, body |-> [kind |-> "none"]]
NoCall == [name |-> "none"]
NoHeaders == [contentType |-> "none", userAgent |-> "none", credential |-> NoCredential]

\* ------------------------------------------------------------------- state
Init ==
  /\ variant \in Variants
  /\ env \in Envs(variant)
  /\ proc = "loading"
  /\ endpoints = Undefined
  /\ queryParams = Undefined
  /\ scheduled = FALSE
  /\ listening = FALSE
  /\ cycles = <<>>
  /\ lastResponse = NoResponse
  /\ fn = NoCall

\* process.exit(1), or an exception at module level: nothing is registered.
Terminate(how) ==
  /\ proc' = how
  /\ UNCHANGED <<endpoints, queryParams, scheduled, listening>>

\* index.js lines 12-35 and the cron.schedule registration of line 140.
Startup_index ==
  /\ variant = "index.js" /\ proc = "loading"
  /\ LET e == ParseOrEmpty(env.ENDPOINTS)
         q == ParseOrEmpty(env.QUERY_PARAMS)
     IN IF ~Truthy(env.CRON_TIMER) \/ ~Truthy(env.BASE_URL) THEN Terminate("exited")
        ELSE IF ~e.ok \/ ~q.ok THEN Terminate("exited")
        ELSE /\ proc' = "running"
             /\ endpoints' = e.val
             /\ queryParams' = q.val
             /\ scheduled' = TRUE
             /\ UNCHANGED listening
  /\ UNCHANGED <<variant, env, cycles, lastResponse, fn>>

\* part_000 lines 4-21: JSON.parse without a guard (an unset variable is a
\* SyntaxError), no check of CRON_TIMER or BASE_URL; cron.schedule rejects an
\* expression that is not a string.
Startup_000 ==
  /\ variant = "part_000" /\ proc = "loading"
  /\ LET e == JSON_parse(env.ENDPOINTS)
         q == JSON_parse(env.QUERY_PARAMS)
     IN IF ~e.ok \/ ~q.ok THEN Terminate("crashed")
        ELSE IF env.CRON_TIMER.t # "string" THEN Terminate("crashed")
        ELSE /\ proc' = "running"
             /\ endpoints' = e.val
             /\ queryParams' = q.val
             /\ scheduled' = TRUE
             /\ UNCHANGED listening
  /\ UNCHANGED <<variant, env, cycles, lastResponse, fn>>

\* Startup_001 without the check of SERVER_AUTH_TOKEN.
Startup_001_tokenOptional ==
  /\ variant = "part_001" /\ proc = "loading"
  /\ LET e == ParseOrEmpty(env.ENDPOINTS)
         q == ParseOrEmpty(env.QUERY_PARAMS)
     IN IF ~Truthy(env.CRON_TIMER) \/ ~Truthy(env.BASE_URL) THEN Terminate("exited")
        ELSE IF ~e.ok \/ ~q.ok THEN Terminate("exited")
        ELSE /\ proc' = "running"
             /\ endpoints' = e.val
             /\ queryParams' = q.val
             /\ scheduled' = TRUE
             /\ listening' = TRUE
  /\ UNCHANGED <<variant, env, cycles, lastResponse, fn>>

\* part_001 lines 16-42, cron.schedule of line 210 and app.listen of line 213.
Startup_001 ==
  /\ variant = "part_001" /\ proc = "loading"
  /\ LET e == ParseOrEmpty(env.ENDPOINTS)
         q == ParseOrEmpty(env.QUERY_PARAMS)
     IN IF ~Truthy(env.CRON_TIMER) \/ ~Truthy(env.BASE_URL) \/ ~Truthy(env.SERVER_AUTH_TOKEN)
        THEN Terminate("exited")
        ELSE IF ~e.ok \/ ~q.ok THEN Terminate("exited")
        ELSE /\ proc' = "running"
             /\ endpoints' = e.val
             /\ queryParams' = q.val
             /\ scheduled' = TRUE
             /\ listening' = TRUE
  /\ UNCHANGED <<variant, env, cycles, lastResponse, fn>>

\* ---------------------------------------------------------------- dispatch
\* One outbound fetch: st is "pending" until the transport settles it, then
\* "responded" (status is the HTTP status) or "failed" (transport error).
Call(endpoint, url, headers) ==
  [endpoint |-> endpoint, url |-> url, headers |-> headers, st |-> "pending", status |-> 0]

\* One run of a scheduler callback or of executeCronJob.  st: "running";
\* "completed" (it ran to its end); "skipped" (index.js returned early: no
\* endpoints); "threw" (the async callback rejected).  result is what
\* executeCronJob returned; response is the status of the response POST /trigger
\* sent for this cycle with result as its body (0: none sent).
Cycle(origin, st, calls) ==
  [origin |-> origin, st |-> st, calls |-> calls, result |-> [kind |-> "none"],
   response |-> 0]

\* The draws of Math.random() for the parameters of arr, one per entry.
Draws(arr) == [1..(IF arr.t = "array" THEN Len(arr.v) ELSE 0) -> 0..(RandDenom - 1)]

Settled(call) == call.st # "pending"

\* Promise.allSettled(requests): fulfilled once every request has settled.
AllSettled(calls) == \A i \in 1..Len(calls) : Settled(calls[i])

\* The synchronous part of makeRequest(endpoint), up to its await fetch(...).
makeRequest(endpoint) ==
  Call(endpoint, RequestURL_index(env.BASE_URL, endpoint, queryParams),
       createRequestHeaders_index(env.CRON_SECRET))

\* The cron.schedule callback of index.js, up to its await Promise.allSettled.
Tick_index ==
  /\ variant = "index.js" /\ proc = "running" /\ scheduled
  /\ Len(cycles) < MaxCycles
  /\ LET endpointsToCall == getAllEndpoints(endpoints) IN
     cycles' = Append(cycles,
       IF LengthOf(endpointsToCall) = Num(0)
       THEN Cycle("tick", "skipped", <<>>)
       ELSE IF ~HasProps(queryParams)
       THEN Cycle("tick", "threw", <<>>)     \* queryParams.length of null
       ELSE IF endpointsToCall.t # "array"
       THEN Cycle("tick", "threw", <<>>)     \* .map is not a function
       ELSE Cycle("tick", "running",
                  [i \in 1..Len(endpointsToCall.v) |-> makeRequest(endpointsToCall.v[i])]))
  /\ UNCHANGED <<variant, env, proc, endpoints, queryParams, scheduled, listening,
                 lastResponse, fn>>

\* A fetch of index.js settles: makeRequest logs the response or the error, and
\* the callback logs completion once Promise.allSettled is fulfilled.
Settle_index ==
  /\ variant = "index.js"
  /\ \E c \in 1..Len(cycles), o \in Outcomes :
       /\ cycles[c].st = "running"
       /\ \E i \in 1..Len(cycles[c].calls) :
            /\ cycles[c].calls[i].st = "pending"
            /\ LET calls == [cycles[c].calls EXCEPT
                               ![i].st = IF o = 0 THEN "failed" ELSE "responded",
                               ![i].status = o]
               IN cycles' = [cycles EXCEPT
                               ![c].calls = calls,
                               ![c].st = IF AllSettled(calls) THEN "completed" ELSE "running"]
  /\ UNCHANGED <<variant, env, proc, endpoints, queryParams, scheduled, listening,
                 lastResponse, fn>>

\* The cron.schedule callback of part_000, up to its await fetch(url).
Tick_000 ==
  /\ variant = "part_000" /\ proc = "running" /\ scheduled
  /\ Len(cycles) < MaxCycles
  /\ \E k \in 0..(RandDenom - 1), ks \in Draws(queryParams) :
       LET e == getRandomEndpoint_000(endpoints, k)
           q == getRandomQueryParams_000(queryParams, ks)
       IN cycles' = Append(cycles,
            IF ~e.ok \/ ~q.ok THEN Cycle("tick", "threw", <<>>)
            ELSE Cycle("tick", "running",
                       <<Call(e.val, RequestURL_000(env.BASE_URL, e.val, queryParams, ks),
                              NoHeaders)>>))
  /\ UNCHANGED <<variant, env, proc, endpoints, queryParams, scheduled, listening,
                 lastResponse, fn>>

\* The fetch of part_000 settles: a response is logged; a transport failure
\* rejects the callback (there is no try/catch).
Settle_000 ==
  /\ variant = "part_000"
  /\ \E c \in 1..Len(cycles), o \in Outcomes :
       /\ cycles[c].st = "running"
       /\ cycles[c].calls[1].st = "pending"
       /\ cycles' = [cycles EXCEPT
                       ![c].calls[1].st = IF o = 0 THEN "failed" ELSE "responded",
                       ![c].calls[1].status = o,
                       ![c].st = IF o = 0 THEN "threw" ELSE "completed"]
  /\ UNCHANGED <<variant, env, proc, endpoints, queryParams, scheduled, listening,
                 lastResponse, fn>>

\* The synchronous part of executeCronJob(), up to its await fetch(...).
executeCronJob(k, ks) ==
  LET endpoint == getRandomEndpoint_001(endpoints, k)
  IN Call(endpoint, RequestURL_001(env.BASE_URL, endpoint, queryParams, ks),
          createRequestHeaders_001(env.CLIENT_AUTH_TOKEN))

\* cron.schedule(cronTimer, executeCronJob) fires.
Tick_001 ==
  /\ variant = "part_001" /\ proc = "running" /\ scheduled
  /\ Len(cycles) < MaxCycles
  /\ \E k \in 0..(RandDenom - 1), ks \in Draws(queryParams) :
       cycles' = Append(cycles, Cycle("tick", "running", <<executeCronJob(k, ks)>>))
  /\ UNCHANGED <<variant, env, proc, endpoints, queryParams, scheduled, listening,
                 lastResponse, fn>>

\* Result answering with a fixed success, whatever the fetch gave.
Result_fixedSuccess(call, o) ==
  [kind |-> "outcome", success |-> TRUE, url |-> call.url, status |-> 200, error |-> FALSE]

\* The value executeCronJob returns once its fetch has settled with o.
Result(call, o) ==
  IF o = 0 THEN [kind |-> "outcome", success |-> FALSE, url |-> <<>>, status |-> 0, error |-> TRUE]
  ELSE [kind |-> "outcome", success |-> o \in 200..299, url |-> call.url, status |-> o,
        error |-> FALSE]

\* Settle_001 keeping the outcome in one variable shared by all runs: every
\* cycle still running sees the outcome that was written last.
Settle_001_sharedOutcome ==
  /\ variant = "part_001"
  /\ \E c \in 1..Len(cycles), o \in Outcomes :
       /\ cycles[c].st = "running"
       /\ cycles[c].calls[1].st = "pending"
       /\ cycles' =
            [d \in 1..Len(cycles) |->
               IF d = c
               THEN [cycles[c] EXCEPT
                       !.calls[1].st = IF o = 0 THEN "failed" ELSE "responded",
                       !.calls[1].status = o,
                       !.st = "completed",
                       !.result = Result(cycles[c].calls[1], o),
                       !.response = IF cycles[c].origin = "trigger" THEN 200 ELSE 0]
               ELSE IF cycles[d].st = "running"
               THEN [cycles[d] EXCEPT !.result = Result(cycles[c].calls[1], o)]
               ELSE cycles[d]]
  /\ UNCHANGED <<variant, env, proc, endpoints, queryParams, scheduled, listening,
                 lastResponse, fn>>

\* Settle_001 retrying: after a transport failure the same request is issued
\* once more within the cycle.
Settle_001_retrying ==
  /\ variant = "part_001"
  /\ \E c \in 1..Len(cycles), o \in Outcomes :
       /\ cycles[c].st = "running"
       /\ cycles[c].calls[Len(cycles[c].calls)].st = "pending"
       /\ LET n == Len(cycles[c].calls)
              call == cycles[c].calls[n]
              done == [call EXCEPT !.st = IF o = 0 THEN "failed" ELSE "responded",
                                   !.status = o]
              calls == [cycles[c].calls EXCEPT ![n] = done]
          IN cycles' = [cycles EXCEPT
               ![c].calls = IF o = 0 /\ n = 1 THEN Append(calls, call) ELSE calls,
               ![c].st = IF o = 0 /\ n = 1 THEN "running" ELSE "completed",
               ![c].result = Result(call, o),
               ![c].response = IF cycles[c].origin = "trigger" /\ ~(o = 0 /\ n = 1)
                               THEN 200 ELSE 0]
  /\ UNCHANGED <<variant, env, proc, endpoints, queryParams, scheduled, listening,
                 lastResponse, fn>>

\* The fetch of executeCronJob settles; for a cycle started by POST /trigger the
\* handler then sends its response.
Settle_001 ==
  /\ variant = "part_001"
  /\ \E c \in 1..Len(cycles), o \in Outcomes :
       /\ cycles[c].st = "running"
       /\ cycles[c].calls[1].st = "pending"
       /\ cycles' = [cycles EXCEPT
                       ![c].calls[1].st = IF o = 0 THEN "failed" ELSE "responded",
                       ![c].calls[1].status = o,
                       ![c].st = "completed",
                       ![c].result = Result(cycles[c].calls[1], o),
                       ![c].response = IF cycles[c].origin = "trigger" THEN 200 ELSE 0]
  /\ UNCHANGED <<variant, env, proc, endpoints, queryParams, scheduled, listening,
                 lastResponse, fn>>

\* ---------------------------------------------------------- control surface
\* app.get('/health'): the handler never reads the request, so the response
\* record keeps no header.
Health(h) ==
  /\ variant = "part_001" /\ proc = "running" /\ listening
  /\ lastResponse' = [path |-> "/health", auth |-> Undefined, status |-> 200,
                      body |-> [kind |-> "health", status |-> "healthy"]]
  /\ UNCHANGED <<variant, env, proc, endpoints, queryParams, scheduled, listening,
                 cycles, fn>>

\* app.post('/trigger', authenticateRequest, ...), up to await executeCronJob().
Trigger(h) ==
  /\ variant = "part_001" /\ proc = "running" /\ listening
  /\ LET a == authenticateRequest(h, env.SERVER_AUTH_TOKEN) IN
       /\ lastResponse' =
            IF a.status # 0
            THEN [path |-> "/trigger", auth |-> h, status |-> a.status,
                  body |-> [kind |-> "error"]]
            ELSE lastResponse
       /\ IF a.next
          THEN /\ Len(cycles) < MaxCycles
               /\ \E k \in 0..(RandDenom - 1), ks \in Draws(queryParams) :
                    cycles' = Append(cycles,
                                Cycle("trigger", "running", <<executeCronJob(k, ks)>>))
          ELSE UNCHANGED cycles
  /\ UNCHANGED <<variant, env, proc, endpoints, queryParams, scheduled, listening, fn>>

\* The body of app.get('/status'); reading .length of null throws, which
\* express answers with 500.
StatusBody ==
  IF ~HasProps(endpoints) \/ ~HasProps(queryParams) THEN [kind |-> "threw"]
  ELSE [kind |-> "status", cronTimer |-> env.CRON_TIMER, baseURL |-> env.BASE_URL,
        endpointsCount |-> LengthOf(endpoints), queryParamsCount |-> LengthOf(queryParams),
        hasClientAuth |-> Truthy(env.CLIENT_AUTH_TOKEN)]

\* The status handler running the dispatch routine before it answers.
Status_dispatching(h) ==
  /\ variant = "part_001" /\ proc = "running" /\ listening
  /\ Len(cycles) < MaxCycles
  /\ LET a == authenticateRequest(h, env.SERVER_AUTH_TOKEN) IN
       /\ a.next
       /\ lastResponse' = [path |-> "/status", auth |-> h, status |-> 200, body |-> StatusBody]
       /\ cycles' = Append(cycles,
                      Cycle("tick", "running",
                            <<executeCronJob(0, [i \in DOMAIN (CHOOSE ks \in Draws(queryParams) : TRUE) |-> 0])>>))
  /\ UNCHANGED <<variant, env, proc, endpoints, queryParams, scheduled, listening, fn>>

\* app.get('/status', authenticateRequest, ...)
Status(h) ==
  /\ variant = "part_001" /\ proc = "running" /\ listening
  /\ LET a == authenticateRequest(h, env.SERVER_AUTH_TOKEN) IN
       lastResponse' =
         IF a.status # 0
         THEN [path |-> "/status", auth |-> h, status |-> a.status, body |-> [kind |-> "error"]]
         ELSE IF a.next
         THEN [path |-> "/status", auth |-> h,
               status |-> IF StatusBody.kind = "threw" THEN 500 ELSE 200,
               body |-> StatusBody]
         ELSE lastResponse
  /\ UNCHANGED <<variant, env, proc, endpoints, queryParams, scheduled, listening,
                 cycles, fn>>

Next ==
  \/ Startup_index \/ Startup_000 \/ Startup_001
  \/ Tick_index \/ Tick_000 \/ Tick_001
  \/ Settle_index \/ Settle_000 \/ Settle_001
  \/ \E h \in Headers : Health(h)
  \/ \E h \in Headers : Trigger(h)
  \/ \E h \in Headers : Status(h)

Spec == Init /\ [][Next]_vars

\* ------------------------------------------------- the functions on their own
\* A second specification applies the pure functions of the scripts to inputs
\* drawn from bounded sets; fn records the application (one per behaviour).
Words == {<<"s">>, <<"t">>, <<"s", " ", "t">>}

\* Inbound secrets: plain words, and words that begin with the scheme prefix.
FnSecrets == {Str(w) : w \in Words} \cup {Str(Bearer \o w) : w \in Words}

BearerNoSpace == <<"B","e","a","r","e","r">>
BearerLower == <<"b","e","a","r","e","r"," ">>

FnHeaders ==
  {Undefined, Str(<<>>), Str(Bearer)}
    \cup {Str(w) : w \in Words}
    \cup {Str(Bearer \o w) : w \in Words}
    \cup {Str(Bearer \o Bearer \o w) : w \in Words}
    \cup {Str(BearerNoSpace \o w) : w \in Words}
    \cup {Str(BearerLower \o w) : w \in Words}

FnBases == {Str(<<"h">>), Str(<<"h", "/">>), Str(<<"h", "/", "v">>)}

\* What the selection step hands to the builder: a path, the empty string
\* (part_001 with no endpoints) or undefined (an index outside the array).
FnEndpoints ==
  {Undefined, Str(<<>>), Str(<<"a">>), Str(<<"/", "a">>), Str(<<"a", "/", "b">>)}

FnKeys == {Str(<<"x">>), Str(<<"a", " ", "b">>)}

RandomizedParams == {Obj(k, Undefined, Num(r)) : k \in FnKeys, r \in 1..MaxRange}
LiteralParams == {Obj(k, val, Undefined) : k \in FnKeys, val \in {Str(<<"5">>), Num(7)}}

FnRandomArrays ==
  {Arr(<<>>)} \cup {Arr(<<p>>) : p \in RandomizedParams}
    \cup {Arr(<<p, q>>) : p \in RandomizedParams, q \in RandomizedParams}

FnLiteralArrays == {Arr(<<>>)} \cup {Arr(<<p>>) : p \in LiteralParams}

Idle ==
  /\ variant = "index.js"
  /\ env = Reference("index.js")
  /\ proc = "loading"
  /\ endpoints = Undefined
  /\ queryParams = Undefined
  /\ scheduled = FALSE
  /\ listening = FALSE
  /\ cycles = <<>>
  /\ lastResponse = NoResponse

InitFn == Idle /\ fn = NoCall

main == <<variant, env, proc, endpoints, queryParams, scheduled, listening,
          cycles, lastResponse>>

ApplyAuthenticate ==
  /\ fn = NoCall
  /\ \E h \in FnHeaders, s \in FnSecrets :
       fn' = [name |-> "authenticateRequest", authHeader |-> h, serverAuthToken |-> s,
              res |-> authenticateRequest(h, s)]
  /\ UNCHANGED main

ApplyRequestURL_index ==
  /\ fn = NoCall
  /\ \E b \in FnBases, e \in FnEndpoints, a \in FnLiteralArrays :
       fn' = [name |-> "RequestURL", variant |-> "index.js", baseURL |-> b, endpoint |-> e,
              params |-> a, draws |-> <<>>, url |-> RequestURL_index(b, e, a)]
  /\ UNCHANGED main

ApplyRequestURL_000 ==
  /\ fn = NoCall
  /\ \E b \in FnBases, e \in FnEndpoints, a \in FnRandomArrays :
       \E ks \in Draws(a) :
         fn' = [name |-> "RequestURL", variant |-> "part_000", baseURL |-> b, endpoint |-> e,
                params |-> a, draws |-> ks, url |-> RequestURL_000(b, e, a, ks)]
  /\ UNCHANGED main

ApplyRequestURL_001 ==
  /\ fn = NoCall
  /\ \E b \in FnBases, e \in FnEndpoints, a \in FnRandomArrays :
       \E ks \in Draws(a) :
         fn' = [name |-> "RequestURL", variant |-> "part_001", baseURL |-> b, endpoint |-> e,
                params |-> a, draws |-> ks, url |-> RequestURL_001(b, e, a, ks)]
  /\ UNCHANGED main

ApplyGetRandomQueryParams ==
  /\ fn = NoCall
  /\ \E a \in FnRandomArrays :
       \E ks \in Draws(a) :
         \/ fn' = [name |-> "getRandomQueryParams", variant |-> "part_000", params |-> a,
                   draws |-> ks, query |-> getRandomQueryParams_000(a, ks).val]
         \/ fn' = [name |-> "getRandomQueryParams", variant |-> "part_001", params |-> a,
                   draws |-> ks, query |-> getRandomQueryParams_001(a, ks)]
  /\ UNCHANGED main

NextFn ==
  \/ ApplyAuthenticate
  \/ ApplyGetRandomQueryParams
  \/ ApplyRequestURL_index
  \/ ApplyRequestURL_000
  \/ ApplyRequestURL_001

SpecFn == InitFn /\ [][NextFn]_vars

\* ------------------------------------------------------------------ claims
ProtectedPaths == {"/trigger", "/status"}

\* The outbound requests issued so far: every call of every cycle was fetched.
RECURSIVE CountCalls(_)
CountCalls(cs) == IF cs = <<>> THEN 0 ELSE Len(Head(cs).calls) + CountCalls(Tail(cs))

OutboundCount == CountCalls(cycles)

\* No credential is presented: no Authorization header, or an empty one.
MissingCredential(h) == h = Undefined \/ h = Str(<<>>)

\* The token a header presents: its value without one leading "Bearer ".
PresentedToken(h) ==
  IF StartsWith(h.v, Bearer) THEN SubSeq(h.v, Len(Bearer) + 1, Len(h.v)) ELSE h.v

\* C1: every response to POST /trigger or GET /status is 401 when no credential
\* is presented, 403 when the presented token differs from the inbound secret,
\* and 200 when it equals the secret.
C1_AuthOutcomes ==
  /\ lastResponse.path \in ProtectedPaths =>
       LET h == lastResponse.auth IN
         IF MissingCredential(h) THEN lastResponse.status = 401
         ELSE IF PresentedToken(h) # env.SERVER_AUTH_TOKEN.v THEN lastResponse.status = 403
         ELSE lastResponse.status = 200
  /\ \A c \in 1..Len(cycles) :
       (cycles[c].origin = "trigger" /\ cycles[c].st # "running") => cycles[c].response = 200

\* C2: a step that answers a request to /trigger or /status with 401 or 403
\* starts no dispatch cycle, issues no outbound call and sends only an error
\* body.  (A rejection that repeats the previous response changes no variable
\* at all.)
C2_RejectedNoDispatch ==
  [][(/\ lastResponse' # lastResponse
      /\ lastResponse'.path \in ProtectedPaths
      /\ lastResponse'.status \in {401, 403})
     => (/\ cycles' = cycles
         /\ OutboundCount' = OutboundCount
         /\ lastResponse'.body = [kind |-> "error"])]_vars

\* A trigger was rejected with 403 while the scheduler had already started a cycle.
C2_Witness ==
  /\ lastResponse.path = "/trigger" /\ lastResponse.status = 403
  /\ Len(cycles) = 1 /\ cycles[1].origin = "tick" /\ OutboundCount = 1

\* C3: for every inbound secret s, a header is authorized exactly
\* when its value is s or "Bearer " followed by s.
C3_RawOrBearer ==
  fn.name = "authenticateRequest" =>
    (fn.res.next <=>
       (fn.authHeader \in {fn.serverAuthToken, Str(Bearer \o fn.serverAuthToken.v)}))

\* C4: in index.js every cycle over an endpoint array of N entries issues N
\* calls, and once the cycle has ended every one of them is recorded as a
\* response or as a failure.
C4_BroadcastAllIssued ==
  (variant = "index.js" /\ endpoints.t = "array") =>
    \A c \in 1..Len(cycles) :
      /\ Len(cycles[c].calls) = Len(endpoints.v)
      /\ cycles[c].st # "running" =>
           \A i \in 1..Len(cycles[c].calls) :
             cycles[c].calls[i].st \in {"responded", "failed"}

\* C5: a cycle is reported completed only when every call it started has
\* settled, and a cycle whose calls have all settled is reported completed
\* (or skipped, when there was nothing to call).
C5_JoinAll ==
  \A c \in 1..Len(cycles) :
    /\ cycles[c].st = "completed" =>
         \A i \in 1..Len(cycles[c].calls) : cycles[c].calls[i].st # "pending"
    /\ (\A i \in 1..Len(cycles[c].calls) : cycles[c].calls[i].st # "pending") =>
         cycles[c].st \in {"completed", "skipped"}

\* C6: with an empty endpoint array every cycle, of every script and whether
\* started by a tick or by a trigger, issues no outbound call and does not fail.
C6_EmptySetNoCalls ==
  endpoints = Arr(<<>>) =>
    \A c \in 1..Len(cycles) : cycles[c].calls = <<>> /\ cycles[c].st # "threw"

\* The query string the randomized parameters a give with the values vs.
ExpectedQuery(v, a, vs) ==
  IF v = "part_001"
  THEN Join([i \in 1..Len(a) |-> encodeURIComponent(a[i].key) \o <<"=">> \o ToDigits(vs[i])],
            <<"&">>)
  ELSE Join([i \in 1..Len(a) |-> StringOf(a[i].key) \o <<"=">> \o ToDigits(vs[i]) \o <<"&">>],
            <<>>)

\* C7: the query string of a dispatch carries, for every randomized parameter of
\* range N >= 1, a value v with 1 <= v <= N.
C7_SampleInRange ==
  fn.name = "getRandomQueryParams" =>
    \E vs \in [1..Len(fn.params.v) -> 1..MaxRange] :
      /\ \A i \in 1..Len(fn.params.v) : vs[i] <= fn.params.v[i].range.v
      /\ fn.query = ExpectedQuery(fn.variant, fn.params.v, vs)

\* Two parameters of the largest range were sampled at both ends: 1 and N.
C7_Witness ==
  /\ fn.name = "getRandomQueryParams"
  /\ Len(fn.params.v) = 2
  /\ \A i \in 1..2 : fn.params.v[i].range = Num(MaxRange)
  /\ fn.query = ExpectedQuery(fn.variant, fn.params.v, <<1, MaxRange>>)

Contains(s, c) == \E i \in 1..Len(s) : s[i] = c

\* C8: with no query parameters the built URL has no "?", and with an empty
\* endpoint as well it is the base URL itself.
C8_NoQuestionMark ==
  (fn.name = "RequestURL" /\ fn.params = Arr(<<>>)) =>
    /\ ~Contains(fn.url, "?")
    /\ fn.endpoint = Str(<<>>) => fn.url = fn.baseURL.v

RECURSIVE DropLeadingSlashes(_)
DropLeadingSlashes(s) ==
  IF s # <<>> /\ Head(s) = "/" THEN DropLeadingSlashes(Tail(s)) ELSE s

RECURSIVE DropTrailingSlashes(_)
DropTrailingSlashes(s) ==
  IF s # <<>> /\ s[Len(s)] = "/" THEN DropTrailingSlashes(SubSeq(s, 1, Len(s) - 1)) ELSE s

\* The URL is path, followed by nothing or by a query.
HasPath(url, path) ==
  /\ StartsWith(url, path)
  /\ Len(url) > Len(path) => url[Len(path) + 1] = "?"

NonEmptyEndpoint(e) == e.t = "string" /\ e.v # <<>>

\* C9: for every base URL and non-empty endpoint, also when the base
\* ends with "/" or the endpoint begins with "/", the two are joined with
\* exactly one slash between them.
C9_ExactlyOneSlash ==
  (fn.name = "RequestURL" /\ NonEmptyEndpoint(fn.endpoint)) =>
    HasPath(fn.url,
            DropTrailingSlashes(fn.baseURL.v) \o <<"/">> \o DropLeadingSlashes(fn.endpoint.v))

\* The startup configuration the claim calls invalid.
InvalidConfig ==
  \/ ~Truthy(env.CRON_TIMER)
  \/ ~Truthy(env.BASE_URL)
  \/ env.ENDPOINTS = BadText
  \/ env.QUERY_PARAMS = BadText

\* C10: with an invalid startup configuration the process ends at startup:
\* nothing is scheduled, nothing listens, no cycle runs and no request is answered.
C10_InvalidConfigNeverRuns ==
  (InvalidConfig /\ proc # "loading") =>
    /\ proc \in {"exited", "crashed"}
    /\ ~scheduled /\ ~listening
    /\ cycles = <<>> /\ lastResponse = NoResponse

\* The configuration apart from the credentials is one the script accepts: the
\* schedule and the base URL are set and both JSON variables parse (part_000
\* parses them unguarded, so there they must be set).
AcceptedButCredentials ==
  /\ Truthy(env.CRON_TIMER) /\ Truthy(env.BASE_URL)
  /\ IF variant = "part_000"
     THEN JSON_parse(env.ENDPOINTS).ok /\ JSON_parse(env.QUERY_PARAMS).ok
     ELSE ParseOrEmpty(env.ENDPOINTS).ok /\ ParseOrEmpty(env.QUERY_PARAMS).ok

\* C11: with the schedule expression and the base URL present (and the JSON
\* variables accepted), startup succeeds and the scheduler is registered
\* whether or not the inbound secret or the outbound credential is configured.
C11_CredentialsOptional ==
  (proc # "loading" /\ AcceptedButCredentials) => (proc = "running" /\ scheduled)

\* C11 (amended): the outbound credential is optional in every script; the
\* inbound secret is required by the serving script part_001, whose startup
\* ends with exit(1) when it is not set, and is not read by the other scripts.
\* So startup succeeds and registers the scheduler exactly when the script is
\* not part_001 or the inbound secret is set.
C11_InboundSecretRequired ==
  (proc # "loading" /\ AcceptedButCredentials) =>
    /\ (proc = "running" /\ scheduled) <=>
         (variant = "part_001" => Truthy(env.SERVER_AUTH_TOKEN))
    /\ (variant = "part_001" /\ ~Truthy(env.SERVER_AUTH_TOKEN)) =>
         (proc = "exited" /\ ~scheduled /\ ~listening)

\* The serving script was started without an inbound secret and has exited.
C11_Witness ==
  /\ variant = "part_001" /\ AcceptedButCredentials
  /\ ~Truthy(env.SERVER_AUTH_TOKEN)
  /\ proc = "exited"

\* The call ended in a transport failure or in a status outside 200..299.
FailedCall(call) ==
  \/ call.st = "failed"
  \/ call.st = "responded" /\ call.status \notin 200..299

\* C12: a cycle with a call that ended in a transport failure or a non-2xx
\* status does not throw; where the script returns an outcome (part_001) the
\* outcome has success = FALSE, success is TRUE exactly for a 2xx status, and a
\* cycle started by POST /trigger is answered 200 with that outcome.
C12_FailureRecordedNotThrown ==
  \A c \in 1..Len(cycles) :
    /\ (\E i \in 1..Len(cycles[c].calls) : FailedCall(cycles[c].calls[i])) =>
         /\ cycles[c].st # "threw"
         /\ (variant = "part_001" /\ cycles[c].st = "completed") =>
              /\ cycles[c].result.kind = "outcome"
              /\ cycles[c].result.success = FALSE
              /\ cycles[c].origin = "trigger" => cycles[c].response = 200
    /\ (variant = "part_001" /\ cycles[c].st = "completed") =>
         (cycles[c].result.success <=>
            (cycles[c].calls[1].st = "responded" /\ cycles[c].calls[1].status \in 200..299))

\* ------------------------------------------------------- the serving script
\* part_001 on its own, with the transport fair: a fetch that has been issued
\* settles (with a response or a transport failure).
ServeEndpoints ==
  {Arr(<<>>), Arr(<<EndpointName(1)>>), Arr(<<EndpointName(1), EndpointName(2)>>)}

\* Deployments of part_001 that start: the reference deployment, or it with no
\* or two endpoints, with a randomized parameter, or with an outbound credential.
ServeEnvs ==
  {e \in Envs("part_001") :
     /\ e.ENDPOINTS \in {JsonText(a) : a \in ServeEndpoints}
     /\ e.QUERY_PARAMS \in {JsonText(Arr(<<>>)), JsonText(Arr(<<RandomizedParam>>))}
     /\ Truthy(e.CRON_TIMER) /\ Truthy(e.BASE_URL) /\ e.SERVER_AUTH_TOKEN = Str(Secret)}

InitServe == Init /\ variant = "part_001" /\ env \in ServeEnvs

NextServe ==
  \/ Startup_001
  \/ Tick_001
  \/ Settle_001
  \/ \E h \in Headers : Health(h)
  \/ \E h \in Headers : Trigger(h)
  \/ \E h \in Headers : Status(h)

SpecServe == InitServe /\ [][NextServe]_vars /\ WF_vars(Settle_001)

\* The headers that present the inbound secret.
Authorized(h) == h \in {env.SERVER_AUTH_TOKEN, Str(Bearer \o env.SERVER_AUTH_TOKEN.v)}

\* The cycles one run of the routine of the scheduler tick can start.
RoutineCycles(origin) ==
  {Cycle(origin, "running", <<executeCronJob(k, ks)>>) :
     k \in 0..(RandDenom - 1), ks \in Draws(queryParams)}

\* The outcome the call of a settled cycle gives: its own status and URL.
OutcomeOf(call) ==
  IF call.st = "failed"
  THEN [kind |-> "outcome", success |-> FALSE, url |-> <<>>, status |-> 0, error |-> TRUE]
  ELSE [kind |-> "outcome", success |-> call.status \in 200..299, url |-> call.url,
        status |-> call.status, error |-> FALSE]

\* C13: a POST /trigger that presents the inbound secret is always accepted
\* (while the model has room for a cycle); a step that starts a trigger cycle is
\* such a request and starts exactly one cycle, one the routine of the
\* scheduler tick can start, without answering yet; the response to a trigger
\* is sent only once the call of its cycle has settled and carries the outcome
\* of that call; and every trigger cycle is eventually answered 200.
C13_TriggerRunsOneCycle ==
  /\ []((proc = "running" /\ listening /\ Len(cycles) < MaxCycles) =>
         \A h \in Headers : Authorized(h) => ENABLED Trigger(h))
  /\ [][(Len(cycles') > Len(cycles) /\ cycles'[Len(cycles')].origin = "trigger") =>
          /\ Len(cycles') = Len(cycles) + 1
          /\ SubSeq(cycles', 1, Len(cycles)) = cycles
          /\ cycles'[Len(cycles')] \in RoutineCycles("trigger")
          /\ lastResponse' = lastResponse
          /\ \E h \in Headers : Authorized(h) /\ Trigger(h)]_vars
  /\ [](\A c \in 1..Len(cycles) :
          cycles[c].origin = "trigger" =>
            /\ cycles[c].st = "running" => cycles[c].response = 0
            /\ cycles[c].response # 0 =>
                 /\ Settled(cycles[c].calls[1])
                 /\ cycles[c].response = 200
                 /\ cycles[c].result = OutcomeOf(cycles[c].calls[1]))
  /\ \A c \in 1..MaxCycles :
       (Len(cycles) >= c /\ cycles[c].origin = "trigger")
         ~> (Len(cycles) >= c /\ cycles[c].response = 200)

\* A trigger cycle started while a tick cycle was running has been answered
\* with the failed outcome of its own call.
C13_Witness ==
  /\ Len(cycles) = 2
  /\ cycles[1].origin = "tick" /\ cycles[1].st = "running"
  /\ cycles[2].origin = "trigger" /\ cycles[2].response = 200
  /\ cycles[2].result.success = FALSE

ReadOnlyPaths == {"/health", "/status"}

\* C14: a step that answers GET /health or GET /status changes no outbound
\* call, no cycle and nothing of the configuration or of the registrations; and
\* GET /health is answered, whatever header the request carries and whatever
\* the configuration holds, with 200 and the healthy indicator.
C14_ReadOnlyNoSideEffects ==
  /\ [][(lastResponse' # lastResponse /\ lastResponse'.path \in ReadOnlyPaths) =>
          /\ cycles' = cycles
          /\ OutboundCount' = OutboundCount
          /\ UNCHANGED <<env, endpoints, queryParams, proc, scheduled, listening>>
          /\ lastResponse'.path = "/health" =>
               (lastResponse'.status = 200
                  /\ lastResponse'.body = [kind |-> "health", status |-> "healthy"])]_vars
  /\ []((proc = "running" /\ listening) => \A h \in Headers : ENABLED Health(h))
  /\ [](lastResponse.path = "/health" =>
          (lastResponse.status = 200
             /\ lastResponse.body = [kind |-> "health", status |-> "healthy"]))

\* The status was read with the right token while a cycle was in flight.
C14_Witness ==
  /\ lastResponse.path = "/status" /\ lastResponse.status = 200
  /\ Len(cycles) = 1 /\ cycles[1].st = "running" /\ OutboundCount = 1

\* The outbound credential the script is configured with (part_000 reads none).
OutboundCredential ==
  IF variant = "index.js" THEN env.CRON_SECRET
  ELSE IF variant = "part_001" THEN env.CLIENT_AUTH_TOKEN
  ELSE Undefined

\* C15: every call of every cycle carries the content type and the user agent
\* of the fixed header set, and carries a credential header exactly when an
\* outbound credential is configured.
C15_FixedHeadersOnEveryCall ==
  \A c \in 1..Len(cycles) :
    \A i \in 1..Len(cycles[c].calls) :
      LET headers == cycles[c].calls[i].headers IN
        /\ headers.contentType = "application/json"
        /\ headers.userAgent = "CronJob/1.0.0"
        /\ (headers.credential # NoCredential) <=> Truthy(OutboundCredential)

SomeCycleCompleted == \E c \in 1..Len(cycles) : cycles[c].st = "completed"

\* C16: once a cycle has completed, what the status query reads holds the
\* outcome of a completed cycle.
C16_LastOutcomeReadable ==
  (lastResponse.path = "/status" /\ lastResponse.status = 200 /\ SomeCycleCompleted) =>
    /\ "lastOutcome" \in DOMAIN lastResponse.body
    /\ \E c \in 1..Len(cycles) :
         cycles[c].st = "completed" /\ lastResponse.body.lastOutcome = cycles[c].result

\* The endpoints one cycle of the script selects: every entry for the
\* broadcast of index.js, one for the random selection of the other scripts.
SelectedPerCycle ==
  IF variant = "index.js"
  THEN (IF endpoints.t = "array" THEN Len(endpoints.v) ELSE 0)
  ELSE 1

\* C17: no call is retried.  A cycle holds at most one call per selected
\* endpoint (index.js: the i-th call is the call to the i-th entry); a step
\* never adds a call to a cycle that exists nor replaces the request of one,
\* whatever its calls settle with; so after k cycles at most k times the
\* endpoints selected per cycle have been requested.
C17_NoRetry ==
  /\ [](/\ \A c \in 1..Len(cycles) :
             /\ Len(cycles[c].calls) <= SelectedPerCycle
             /\ variant = "index.js" =>
                  \A i \in 1..Len(cycles[c].calls) :
                    cycles[c].calls[i].endpoint = endpoints.v[i]
        /\ OutboundCount <= Len(cycles) * SelectedPerCycle)
  /\ [][\A c \in 1..Len(cycles) :
          /\ Len(cycles') >= Len(cycles)
          /\ Len(cycles'[c].calls) = Len(cycles[c].calls)
          /\ \A i \in 1..Len(cycles[c].calls) :
               /\ cycles'[c].calls[i].url = cycles[c].calls[i].url
               /\ cycles'[c].calls[i].endpoint = cycles[c].calls[i].endpoint
               /\ Settled(cycles[c].calls[i]) => cycles'[c].calls[i] = cycles[c].calls[i]]_vars

\* Two cycles of the serving script have ended, each with its one call failed.
C17_Witness ==
  /\ variant = "part_001" /\ Len(cycles) = 2
  /\ \A c \in 1..2 : cycles[c].st = "completed" /\ cycles[c].calls[1].st = "failed"
  /\ OutboundCount = 2

\* C18: no run of a scheduler callback rejects and no handler of the control
\* surface throws, whatever configuration startup accepted and whatever the
\* outbound calls settle with.
C18_NothingThrows ==
  /\ \A c \in 1..Len(cycles) : cycles[c].st # "threw"
  /\ lastResponse.body # [kind |-> "threw"]
  /\ lastResponse.status # 500

\* C19: cycles are independent.  A step changes at most one cycle: the others,
\* running or not, keep their selection, their call and their outcome; the
\* selection of a cycle never changes once made; and the outcome a cycle
\* returns is the outcome of the call that cycle issued.
C19_CyclesIndependent ==
  /\ [][/\ \A c \in 1..Len(cycles), d \in 1..Len(cycles) :
             (c # d /\ cycles'[c] # cycles[c]) => cycles'[d] = cycles[d]
        /\ Len(cycles') > Len(cycles) => SubSeq(cycles', 1, Len(cycles)) = cycles
        /\ \A c \in 1..Len(cycles) :
             /\ cycles'[c].origin = cycles[c].origin
             /\ cycles'[c].calls[1].endpoint = cycles[c].calls[1].endpoint
             /\ cycles'[c].calls[1].url = cycles[c].calls[1].url
             /\ cycles[c].st = "completed" => cycles'[c] = cycles[c]]_vars
  /\ [](\A c \in 1..Len(cycles) :
          cycles[c].st = "completed" => cycles[c].result = OutcomeOf(cycles[c].calls[1]))

\* A trigger arrived while a tick's cycle was in flight, selected another
\* endpoint, and its call was answered first.
C19_Witness ==
  /\ Len(cycles) = 2
  /\ cycles[1].origin = "tick" /\ cycles[1].st = "running"
  /\ cycles[2].origin = "trigger" /\ cycles[2].st = "completed"
  /\ cycles[2].calls[1].endpoint # cycles[1].calls[1].endpoint
  /\ cycles[2].result.status = 200

\* sub occurs in s as a run of consecutive characters.
Occurs(sub, s) ==
  \E i \in 0..(Len(s) - Len(sub)) : SubSeq(s, i + 1, i + Len(sub)) = sub

\* What the control surface may send: the error body, the health body, the
\* failure of the status handler, or the summary of the configuration, which
\* is computed from the environment without the inbound secret.
DisclosedBodies ==
  {[kind |-> "none"], [kind |-> "error"], [kind |-> "threw"],
   [kind |-> "health", status |-> "healthy"],
   [kind |-> "status", cronTimer |-> env.CRON_TIMER, baseURL |-> env.BASE_URL,
    endpointsCount |-> LengthOf(ParseOrEmpty(env.ENDPOINTS).val),
    queryParamsCount |-> LengthOf(ParseOrEmpty(env.QUERY_PARAMS).val),
    hasClientAuth |-> Truthy(env.CLIENT_AUTH_TOKEN)]}

\* C20: in part_001, for each inbound secret, the secret occurs in no URL and
\* in no credential header of an outbound call; the credential header is
\* computed from the outbound credential alone; the outcome of a cycle carries
\* the URL of its call and its status only; and every body the control surface
\* sends is one of the bodies above, where the status summary tells of the
\* outbound credential only whether it is set.
C20_InboundSecretNotDisclosed ==
  (variant = "part_001" /\ proc = "running") =>
    LET secret == env.SERVER_AUTH_TOKEN.v
        client == env.CLIENT_AUTH_TOKEN
    IN
      /\ \A c \in 1..Len(cycles) :
           LET call == cycles[c].calls[1] IN
             /\ ~Occurs(secret, call.url)
             /\ ~Occurs(secret, call.headers.credential.value)
             /\ call.headers.credential =
                  (IF Truthy(client)
                   THEN [name |-> "Authorization",
                         value |-> IF StartsWith(client.v, Bearer) THEN client.v
                                   ELSE Bearer \o client.v]
                   ELSE NoCredential)
             /\ (cycles[c].st = "completed" =>
                  (/\ cycles[c].result.url \in {<<>>, call.url}
                   /\ cycles[c].result.status = call.status))
      /\ lastResponse.body \in DisclosedBodies
      /\ (lastResponse.body.kind = "status" =>
           (/\ lastResponse.body.hasClientAuth = Truthy(client)
            /\ DOMAIN lastResponse.body =
                 {"kind", "cronTimer", "baseURL", "endpointsCount",
                  "queryParamsCount", "hasClientAuth"}))

\* Under the other inbound secret an authorized status was answered after a
\* cycle had issued its call.
C20_Witness ==
  /\ variant = "part_001" /\ env.SERVER_AUTH_TOKEN = Str(OtherSecret)
  /\ lastResponse.path = "/status" /\ lastResponse.status = 200
  /\ lastResponse.auth = Str(OtherSecret)
  /\ Len(cycles) >= 1

====
